---- MODULE Spec2Model ----
(***************************************************************************)
(* A model of dataloader/pc_dataset.py: the registry of dataset classes,   *)
(* the four dataset variants (SemKITTI_sk, Dense, CycleDense,              *)
(* SemKITTI_nusc) with their constructors and __getitem__, and the         *)
(* SemKITTI2train post-processing helper.                                  *)
(*                                                                         *)
(* Three specifications share the variables: SpecReg (the registry),       *)
(* SpecData (construction and indexed access) and SpecTrain                *)
(* (SemKITTI2train on numpy arrays held in a heap of objects).             *)
(***************************************************************************)
EXTENDS Integers, Sequences, FiniteSets, TLC

VARIABLES
    \* ---- registry (module globals and the last call made on them)
    REGISTERED_PC_DATASET_CLASSES,  \* the dict name -> class
    regPrev,        \* the dict as it was before the last call
    regLog,         \* every <<name, class>> a register_dataset call stored
    regCall,        \* the last call: op, name, cls, outcome, ret
    \* ---- datasets
    storage,        \* the scans on disk, by position in the walk
    yaml,           \* the learning_map of the label-mapping file
    ds,             \* the constructor call made (its arguments, whether the
                    \* label-mapping file could be loaded) and the object built
    ioLog,          \* file-system operations of the last constructor call
    got,            \* per index, the result of the last __getitem__ on ds
    \* ---- SemKITTI2train
    heap,           \* numpy arrays by object identity
    heapBefore,     \* the heap before the last call
    call,           \* the last SemKITTI2train call: argument and result
    nCalls          \* number of calls made

regVars == <<REGISTERED_PC_DATASET_CLASSES, regPrev, regLog, regCall>>
dataVars == <<storage, yaml, ds, ioLog, got>>
trainVars == <<heap, heapBefore, call, nCalls>>
vars == <<regVars, dataVars, trainVars>>

None == "<None>"

(***************************************************************************)
(* Registry                                                                *)
(***************************************************************************)

\* The classes the module defines (each decorated with @register_dataset)
\* and two classes of a caller. A class is identified by its __name__.
ModuleClasses == <<"SemKITTI_sk", "Dense", "CycleDense", "SemKITTI_nusc">>
CallerClasses == {"MyDataset", "OtherDataset"}
Classes == {ModuleClasses[i] : i \in 1..Len(ModuleClasses)} \cup CallerClasses
Names == Classes \cup {"alias"}

\* register_dataset with the duplicate check dropped: a later registration
\* silently replaces the class.
register_dataset_overwrite(reg, cls, name) ==
    LET n == IF name = None THEN cls ELSE name
    IN  [reg |-> [k \in DOMAIN reg \cup {n} |-> IF k = n THEN cls ELSE reg[k]],
         outcome |-> "ok", ret |-> cls]

\* register_dataset(cls, name=None): the dict after the call, how the call
\* ended and what it returned.
register_dataset(reg, cls, name) ==
    LET n == IF name = None THEN cls ELSE name
    IN  IF n \in DOMAIN reg
        THEN [reg |-> reg, outcome |-> "AssertionError", ret |-> None]
        ELSE [reg |-> [k \in DOMAIN reg \cup {n} |-> IF k = n THEN cls ELSE reg[k]],
              outcome |-> "ok", ret |-> cls]

\* get_pc_model_class with the lookup replaced by a defaulting one.
get_pc_model_class_default(reg, name) ==
    IF name \in DOMAIN reg
    THEN [outcome |-> "ok", ret |-> reg[name]]
    ELSE [outcome |-> "ok", ret |-> ModuleClasses[1]]

\* get_pc_model_class(name)
get_pc_model_class(reg, name) ==
    IF name \in DOMAIN reg
    THEN [outcome |-> "ok", ret |-> reg[name]]
    ELSE [outcome |-> "AssertionError", ret |-> None]

RECURSIVE LoadModule(_, _)
\* The dict after the first i class statements of the module have run.
LoadModule(reg, i) ==
    IF i = 0 THEN reg
    ELSE register_dataset(LoadModule(reg, i - 1), ModuleClasses[i], None).reg

EmptyDict == [k \in {} |-> None]
NoRegCall == [op |-> "none", name |-> None, cls |-> None, outcome |-> "none", ret |-> None]

RegInit ==
    /\ REGISTERED_PC_DATASET_CLASSES = LoadModule(EmptyDict, Len(ModuleClasses))
    /\ regPrev = REGISTERED_PC_DATASET_CLASSES
    /\ regLog = {<<ModuleClasses[i], ModuleClasses[i]>> : i \in 1..Len(ModuleClasses)}
    /\ regCall = NoRegCall

Register ==
    \E cls \in Classes, name \in Names \cup {None} :
        LET r == register_dataset(REGISTERED_PC_DATASET_CLASSES, cls, name)
        IN  /\ REGISTERED_PC_DATASET_CLASSES' = r.reg
            /\ regPrev' = REGISTERED_PC_DATASET_CLASSES
            /\ regLog' = IF r.outcome = "ok"
                         THEN regLog \cup {<<IF name = None THEN cls ELSE name, cls>>}
                         ELSE regLog
            /\ regCall' = [op |-> "register", name |-> name, cls |-> cls,
                           outcome |-> r.outcome, ret |-> r.ret]
            /\ UNCHANGED <<dataVars, trainVars>>

Resolve ==
    \E name \in Names :
        LET r == get_pc_model_class(REGISTERED_PC_DATASET_CLASSES, name)
        IN  /\ regPrev' = REGISTERED_PC_DATASET_CLASSES
            /\ regCall' = [op |-> "resolve", name |-> name, cls |-> None,
                           outcome |-> r.outcome, ret |-> r.ret]
            /\ UNCHANGED <<REGISTERED_PC_DATASET_CLASSES, regLog>>
            /\ UNCHANGED <<dataVars, trainVars>>

(***************************************************************************)
(* SemKITTI2train                                                          *)
(*                                                                         *)
(* A label array is a numpy uint8 array: an object of the heap, named by   *)
(* its identity, holding a sequence of bytes. A caller passes one array,   *)
(* a Python list of arrays or a tuple of arrays.                           *)
(***************************************************************************)

MaxLen == 2
MaxCalls == 1
Byte == 256

ArrIds == {"a1", "a2"}
LabelVals == {0, 1, 2, 255}
SeqsUpTo(S, n) == UNION {[1..m -> S] : m \in 0..n}
LabelArrays == SeqsUpTo(LabelVals, MaxLen)

\* The sequences of array objects a caller passes: distinct objects, and the
\* same object at two positions.
RefSeqs == {<<>>, <<"a1">>, <<"a2">>, <<"a1", "a2">>, <<"a2", "a1">>, <<"a1", "a1">>}
Args == [kind : {"array"}, refs : {<<"a1">>, <<"a2">>}]
            \cup [kind : {"list", "tuple"}, refs : RefSeqs]

\* SemKITTI2train_single without the decrement: only label 0 is rewritten.
SingleValuesNoShift(x) ==
    [k \in 1..Len(x) |-> IF x[k] = 0 THEN 255 ELSE x[k]]

\* The bytes SemKITTI2train_single leaves in the array it is given:
\* remove_ind = label == 0; label -= 1 (uint8 wraps); label[remove_ind] = 255.
SingleValues(x) ==
    LET remove_ind == [k \in 1..Len(x) |-> x[k] = 0]
        dec == [k \in 1..Len(x) |-> (x[k] - 1) % Byte]
    IN  [k \in 1..Len(x) |-> IF remove_ind[k] THEN 255 ELSE dec[k]]

\* SemKITTI2train_single(label) on an array object: the array is rewritten
\* in place and the same object is returned.
SemKITTI2train_single(h, ref) ==
    [heap |-> [h EXCEPT ![ref] = SingleValues(h[ref])], ret |-> ref]

RECURSIVE MapSingle(_, _, _)
\* [SemKITTI2train_single(a) for a in label], the first i elements done.
MapSingle(h, refs, i) ==
    IF i = 0 THEN h
    ELSE SemKITTI2train_single(MapSingle(h, refs, i - 1), refs[i]).heap

\* SemKITTI2train(label). A tuple is not a list: it goes to
\* SemKITTI2train_single, where `label -= 1` raises TypeError.
SemKITTI2train(h, arg) ==
    IF arg.kind = "list"
    THEN [heap |-> MapSingle(h, arg.refs, Len(arg.refs)), outcome |-> "ok",
          ret |-> [kind |-> "list", refs |-> arg.refs]]
    ELSE IF arg.kind = "array"
    THEN [heap |-> SemKITTI2train_single(h, arg.refs[1]).heap, outcome |-> "ok",
          ret |-> [kind |-> "array",
                   refs |-> <<SemKITTI2train_single(h, arg.refs[1]).ret>>]]
    ELSE [heap |-> h, outcome |-> "TypeError", ret |-> [kind |-> "none", refs |-> <<>>]]

NoCall == [arg |-> [kind |-> "none", refs |-> <<>>], outcome |-> "none",
           ret |-> [kind |-> "none", refs |-> <<>>]]

TrainInit ==
    /\ heap \in [ArrIds -> LabelArrays]
    /\ heapBefore = heap
    /\ call = NoCall
    /\ nCalls = 0

CallSemKITTI2train ==
    /\ nCalls < MaxCalls
    /\ \E arg \in Args :
        LET r == SemKITTI2train(heap, arg)
        IN  /\ heap' = r.heap
            /\ heapBefore' = heap
            /\ call' = [arg |-> arg, outcome |-> r.outcome, ret |-> r.ret]
            /\ nCalls' = nCalls + 1
            /\ UNCHANGED <<regVars, dataVars>>

(***************************************************************************)
(* Arrays                                                                  *)
(*                                                                         *)
(* A numpy array is its shape and its elements in row-major order.         *)
(***************************************************************************)

\* np.fromfile(...).reshape((-1, c)) of a file holding a whole number of rows
Reshape2(flat, c) == [shape |-> <<Len(flat) \div c, c>>, flat |-> flat]
\* a[i, j], indices from 0
At(a, i, j) == a.flat[i * a.shape[2] + j + 1]
\* a[:, lo:hi]
Cols(a, lo, hi) ==
    LET w == hi - lo
    IN  [shape |-> <<a.shape[1], w>>,
         flat |-> [k \in 1..(a.shape[1] * w) |-> At(a, (k - 1) \div w, lo + ((k - 1) % w))]]
\* a[:, c], a 1-D array
Col(a, c) == [shape |-> <<a.shape[1]>>, flat |-> [k \in 1..a.shape[1] |-> At(a, k - 1, c)]]
\* a[r, :], a 1-D array
Row(a, r) == [shape |-> <<a.shape[2]>>, flat |-> [k \in 1..a.shape[2] |-> At(a, r, k - 1)]]
\* a[lo:hi, :]
Rows(a, lo, hi) ==
    [shape |-> <<hi - lo, a.shape[2]>>,
     flat |-> [k \in 1..((hi - lo) * a.shape[2]) |-> a.flat[lo * a.shape[2] + k]]]
\* a.transpose(1, 0)
Transpose(a) ==
    LET n == a.shape[1]
        m == a.shape[2]
    IN  [shape |-> <<m, n>>,
         flat |-> [k \in 1..(n * m) |-> At(a, (k - 1) % n, (k - 1) \div n)]]
\* np.expand_dims(a, axis=1) of a 1-D array
ExpandDims1(a) == [shape |-> <<a.shape[1], 1>>, flat |-> a.flat]
\* a.reshape(-1, 1)
ReshapeCol(a) == [shape |-> <<Len(a.flat), 1>>, flat |-> a.flat]
\* np.zeros_like(a, dtype=int)
ZerosLike(a) == [shape |-> a.shape, flat |-> [k \in 1..Len(a.flat) |-> 0]]
\* a.astype(np.uint8)
AsUint8(a) == [shape |-> a.shape, flat |-> [k \in 1..Len(a.flat) |-> a.flat[k] % Byte]]

(***************************************************************************)
(* Number conversions                                                      *)
(***************************************************************************)

F32Mantissa == 16777216
Low16 == 65536

RECURSIVE Ulp(_)
\* The spacing of float32 values around the natural number x.
Ulp(x) == IF x < F32Mantissa THEN 1 ELSE 2 * Ulp(x \div 2)

\* astype(np.float32) of an integer: round to nearest, ties to even, with a
\* 24-bit significand. astype(np.int32) of the result is exact.
F32(x) ==
    LET m == IF x < 0 THEN -x ELSE x
        u == Ulp(m)
        q == m \div u
        r == m % u
        up == IF 2 * r > u THEN TRUE ELSE IF 2 * r < u THEN FALSE ELSE q % 2 = 1
        v == IF up THEN (q + 1) * u ELSE q * u
    IN  IF x < 0 THEN -v ELSE v

\* annotated_data & 0xFFFF on two's-complement integers
Mask16(x) == x % Low16

(***************************************************************************)
(* Storage                                                                 *)
(*                                                                         *)
(* A scan is a sequence of points; a point is <<x, y, z, c3, c4, label>>:  *)
(* c3 is the reflectance column of a flat scan file (A, D) and the         *)
(* distance_m_1 channel of a container (B, C); c4 is the fifth column of   *)
(* an N x 5 file (D) and the intensity_1 channel of a container; label is  *)
(* the point's raw label id.                                               *)
(***************************************************************************)

MaxPts == 2
Indices == {0, 1}
PointSet == { <<11, 21, 31, 41, 51, 0>>,
              <<12, 22, 32, 42, 52, 65541>>,
              <<13, 23, 33, 43, 53, 16777217>> }
Scans == SeqsUpTo(PointSet, MaxPts)

LearningMaps == { (0 :> 0) @@ (1 :> 1) @@ (5 :> 2),
                  (1 :> 0) @@ (5 :> 255),
                  (0 :> 0) @@ (5 :> 2) }

\* The flat float32 file of width w: the first w fields of every point.
FlatFile(scan, w) ==
    [k \in 1..(w * Len(scan)) |-> scan[((k - 1) \div w) + 1][((k - 1) % w) + 1]]
\* The companion int32 .label file of a scan (A): one raw id per point.
LabelFile(scan) == [k \in 1..Len(scan) |-> scan[k][6]]
\* The uint8 lidarseg file of a scan (D): one byte per point.
LidarsegFile(scan) == [k \in 1..Len(scan) |-> scan[k][6] % Byte]
\* np.dstack of the six datasets of a container, .astype(np.float32),
\* .transpose(2,0,1).reshape(6,-1): channel c is row c, the grid row-major.
Container(scan) ==
    LET n == Len(scan)
    IN  [shape |-> <<6, n>>,
         flat |-> [k \in 1..(6 * n) |-> F32(scan[((k - 1) % n) + 1][((k - 1) \div n) + 1])]]

(***************************************************************************)
(* Dataset constructors                                                    *)
(***************************************************************************)

Imagesets == {"train", "val", "test", "bogus"}
Clss == {"clear", "rain", "fog", "snow"}
Invalid == "<invalid>"
SplitError == "Exception: Split must be train/val/test"
SplitClassError == "Exception: Split must be train/val/test with class clear/rain/fog"
OpenYaml == "open:label_mapping"
OpenPickle == "open:imageset"
WalkRoot == "walk:data_path/"

\* The if/elif chain with the final else replaced by a default split.
SplitKey3DefaultTrain(imageset) ==
    IF imageset = "val" THEN "valid"
    ELSE IF imageset = "test" THEN "test"
    ELSE "train"

\* The if/elif chain of SemKITTI_sk.__init__ and Dense.__init__: the key of
\* semkittiyaml['split'] to read, or Invalid where the chain raises.
SplitKey3(imageset) ==
    IF imageset = "train" THEN "train"
    ELSE IF imageset = "val" THEN "valid"
    ELSE IF imageset = "test" THEN "test"
    ELSE Invalid

\* The if/elif chain of CycleDense.__init__ on imageset+clss.
SplitKey9(imageset, clss) ==
    LET k == imageset \o clss
    IN  IF k \in {"trainclear", "trainrain", "trainfog",
                  "valclear", "valrain", "valfog",
                  "testclear", "testrain", "testfog"}
        THEN k
        ELSE Invalid

\* self.im_idx after the walk of the split's folders: the scans of storage
\* in the order the walk yields them.
WalkedIndex == <<0, 1>>

NoObject == [variant |-> "none", imageset |-> None, clss |-> None, return_ref |-> FALSE,
             yamlOk |-> FALSE, outcome |-> "none", learning_map |-> EmptyDict, im_idx |-> <<>>]

\* SemKITTI_sk.__init__ / Dense.__init__ / CycleDense.__init__: the object
\* built (or the exception raised) and the file-system operations made, in
\* order. yamlOk: whether open(label_mapping) and yaml.safe_load succeed.
InitSplit(variant, imageset, clss, return_ref, yamlOk, lm) ==
    LET key == IF variant = "CycleDense" THEN SplitKey9(imageset, clss)
               ELSE SplitKey3(imageset)
        base == [variant |-> variant, imageset |-> imageset, clss |-> clss,
                 return_ref |-> return_ref, yamlOk |-> yamlOk, outcome |-> "ok",
                 learning_map |-> EmptyDict, im_idx |-> <<>>]
    IN  IF ~yamlOk
        THEN [obj |-> [base EXCEPT !.outcome = "FileNotFoundError"], io |-> <<OpenYaml>>]
        ELSE IF key = Invalid
        THEN [obj |-> [base EXCEPT !.outcome =
                          IF variant = "CycleDense" THEN SplitClassError ELSE SplitError],
              io |-> <<OpenYaml>>]
        ELSE [obj |-> [base EXCEPT !.learning_map = lm, !.im_idx = WalkedIndex],
              io |-> <<OpenYaml, WalkRoot \o key>>]

\* SemKITTI_nusc.__init__: imageset is the path of the pickled index; the
\* split is never validated.
InitNusc(imageset, return_ref, yamlOk, lm) ==
    LET base == [variant |-> "SemKITTI_nusc", imageset |-> imageset, clss |-> None,
                 return_ref |-> return_ref, yamlOk |-> yamlOk, outcome |-> "ok",
                 learning_map |-> EmptyDict, im_idx |-> <<>>]
    IN  IF ~yamlOk
        THEN [obj |-> [base EXCEPT !.outcome = "FileNotFoundError"],
              io |-> <<OpenPickle, OpenYaml>>]
        ELSE [obj |-> [base EXCEPT !.learning_map = lm, !.im_idx = WalkedIndex],
              io |-> <<OpenPickle, OpenYaml>>]

(***************************************************************************)
(* Indexed access                                                          *)
(***************************************************************************)

NoResult == [outcome |-> "none", tuple |-> <<>>]
Raise(e) == [outcome |-> e, tuple |-> <<>>]
Return(t) == [outcome |-> "ok", tuple |-> t]

\* The lookup with a default: an id without an entry becomes label 0.
VectorizeDefault(lm, a) ==
    IF Len(a.flat) = 0 THEN [outcome |-> "ValueError", arr |-> a]
    ELSE [outcome |-> "ok",
          arr |-> [shape |-> a.shape,
                   flat |-> [k \in 1..Len(a.flat) |->
                               IF a.flat[k] \in DOMAIN lm THEN lm[a.flat[k]] ELSE 0]]]

\* np.vectorize(self.learning_map.__getitem__)(a): ValueError on an array
\* of size 0 (no otypes given), KeyError on an id without an entry.
Vectorize(lm, a) ==
    IF Len(a.flat) = 0 THEN [outcome |-> "ValueError", arr |-> a]
    ELSE IF \E k \in 1..Len(a.flat) : a.flat[k] \notin DOMAIN lm
    THEN [outcome |-> "KeyError", arr |-> a]
    ELSE [outcome |-> "ok",
          arr |-> [shape |-> a.shape, flat |-> [k \in 1..Len(a.flat) |-> lm[a.flat[k]]]]]

\* annotated_data & 0xFFFF, elementwise
MaskArr(a) == [shape |-> a.shape, flat |-> [k \in 1..Len(a.flat) |-> Mask16(a.flat[k])]]

\* SemKITTI_sk.__getitem__
GetItem_sk(obj, scan) ==
    LET raw_data == Reshape2(FlatFile(scan, 4), 4)
        ref == IF obj.return_ref THEN <<Col(raw_data, 3)>> ELSE <<>>
    IN  IF obj.imageset = "test"
        THEN Return(<<Cols(raw_data, 0, 3),
                      AsUint8(ExpandDims1(ZerosLike(Col(raw_data, 0))))>> \o ref)
        ELSE LET annotated == Vectorize(obj.learning_map,
                                  MaskArr(Reshape2(LabelFile(scan), 1)))
             IN  IF annotated.outcome # "ok" THEN Raise(annotated.outcome)
                 ELSE Return(<<Cols(raw_data, 0, 3), AsUint8(annotated.arr)>> \o ref)

\* Dense.__getitem__
GetItem_dense(obj, scan) ==
    LET raw_data == Container(scan)
        ref == IF obj.return_ref THEN <<ReshapeCol(Row(raw_data, 3))>> ELSE <<>>
    IN  IF obj.imageset = "test"
        THEN IF raw_data.shape[2] = 0 THEN Raise("IndexError")
             ELSE Return(<<Transpose(Rows(raw_data, 0, 3)),
                           AsUint8(ExpandDims1(ZerosLike(Col(raw_data, 0))))>> \o ref)
        ELSE LET annotated == Vectorize(obj.learning_map,
                                  MaskArr(ReshapeCol(Row(raw_data, 5))))
             IN  IF annotated.outcome # "ok" THEN Raise(annotated.outcome)
                 ELSE Return(<<Transpose(Rows(raw_data, 0, 3)), AsUint8(annotated.arr)>>
                             \o ref)

\* CycleDense.__getitem__
GetItem_cycle(obj, scan) ==
    LET raw_data == Container(scan)
        ref == IF obj.return_ref THEN <<ReshapeCol(Row(raw_data, 3))>> ELSE <<>>
    IN  Return(<<Transpose(Rows(raw_data, 0, 3))>> \o ref)

\* SemKITTI_nusc.__getitem__
GetItem_nusc(obj, scan) ==
    LET points_label == Vectorize(obj.learning_map, Reshape2(LidarsegFile(scan), 1))
        points == Reshape2(FlatFile(scan, 5), 5)
        ref == IF obj.return_ref THEN <<Col(points, 3)>> ELSE <<>>
    IN  IF points_label.outcome # "ok" THEN Raise(points_label.outcome)
        ELSE Return(<<Cols(points, 0, 3), AsUint8(points_label.arr)>> \o ref)

DataInit ==
    /\ storage \in [Indices -> Scans]
    /\ yaml \in LearningMaps
    /\ ds = NoObject
    /\ ioLog = <<>>
    /\ got = [i \in Indices |-> NoResult]

\* A constructor call of variant A, B or C, made once: the model follows
\* one dataset object.
ConstructSplit ==
    /\ ds = NoObject
    /\ \E variant \in {"SemKITTI_sk", "Dense", "CycleDense"}, imageset \in Imagesets,
       clss \in Clss, return_ref \in BOOLEAN, yamlOk \in BOOLEAN :
        LET r == InitSplit(variant, imageset,
                           IF variant = "CycleDense" THEN clss ELSE None,
                           return_ref, yamlOk, yaml)
        IN  /\ ds' = r.obj
            /\ ioLog' = r.io
            /\ got' = [i \in Indices |-> NoResult]
            /\ UNCHANGED <<storage, yaml, regVars, trainVars>>

\* A constructor call of variant D.
ConstructNusc ==
    /\ ds = NoObject
    /\ \E imageset \in Imagesets, return_ref \in BOOLEAN, yamlOk \in BOOLEAN :
        LET r == InitNusc(imageset, return_ref, yamlOk, yaml)
        IN  /\ ds' = r.obj
            /\ ioLog' = r.io
            /\ got' = [i \in Indices |-> NoResult]
            /\ UNCHANGED <<storage, yaml, regVars, trainVars>>

\* dataset[index] on the object the last constructor call built.
GetItem ==
    /\ ds.outcome = "ok"
    /\ \E index \in 1..Len(ds.im_idx) :
        LET scan == storage[ds.im_idx[index]]
            r == CASE ds.variant = "SemKITTI_sk" -> GetItem_sk(ds, scan)
                   [] ds.variant = "Dense" -> GetItem_dense(ds, scan)
                   [] ds.variant = "CycleDense" -> GetItem_cycle(ds, scan)
                   [] OTHER -> GetItem_nusc(ds, scan)
        IN  got' = [got EXCEPT ![ds.im_idx[index]] = r]
    /\ UNCHANGED <<storage, yaml, ds, ioLog, regVars, trainVars>>

(***************************************************************************)
(* Specifications                                                          *)
(***************************************************************************)

RegIdle ==
    /\ REGISTERED_PC_DATASET_CLASSES = EmptyDict
    /\ regPrev = EmptyDict
    /\ regLog = {}
    /\ regCall = NoRegCall
DataIdle ==
    /\ storage = [i \in Indices |-> <<>>]
    /\ yaml = EmptyDict
    /\ ds = NoObject
    /\ ioLog = <<>>
    /\ got = [i \in Indices |-> NoResult]
TrainIdle ==
    /\ heap = [a \in ArrIds |-> <<>>]
    /\ heapBefore = heap
    /\ call = NoCall
    /\ nCalls = 0

InitReg == RegInit /\ DataIdle /\ TrainIdle
NextReg == Register \/ Resolve
SpecReg == InitReg /\ [][NextReg]_vars

InitData == RegIdle /\ DataInit /\ TrainIdle
NextData == ConstructSplit \/ ConstructNusc \/ GetItem
SpecData == InitData /\ [][NextData]_vars

InitTrain == RegIdle /\ DataIdle /\ TrainInit
NextTrain == CallSemKITTI2train
SpecTrain == InitTrain /\ [][NextTrain]_vars

(***************************************************************************)
(* Properties of the registry (SpecReg)                                    *)
(***************************************************************************)

RegKey(c) == IF c.name = None THEN c.cls ELSE c.name
RegisteredNames == {p[1] : p \in regLog}

\* C6: every name registered with class C (explicitly, or by default under
\* C's own class name) resolves to exactly C; a resolve call leaves the
\* registry as it was; resolving a name never registered fails.
C6_ResolveReturnsRegistered ==
    /\ \A p \in regLog :
          /\ p[1] \in DOMAIN REGISTERED_PC_DATASET_CLASSES
          /\ REGISTERED_PC_DATASET_CLASSES[p[1]] = p[2]
    /\ regCall.op = "resolve" =>
          /\ REGISTERED_PC_DATASET_CLASSES = regPrev
          /\ \A p \in regLog :
                p[1] = regCall.name => regCall.outcome = "ok" /\ regCall.ret = p[2]
          /\ regCall.name \notin RegisteredNames =>
                regCall.outcome = "AssertionError" /\ regCall.ret = None

\* C6 witness: a class registered under an explicit name and one registered
\* under its own name have both been stored, and the explicit name resolved.
C6_Witness ==
    /\ regCall.op = "resolve"
    /\ regCall.name = "alias"
    /\ regCall.ret = "MyDataset"
    /\ <<"OtherDataset", "OtherDataset">> \in regLog

\* C7: register_dataset under a name already present fails and leaves the
\* registry unchanged.
C7_DuplicateRegisterFails ==
    (regCall.op = "register" /\ RegKey(regCall) \in DOMAIN regPrev) =>
        /\ regCall.outcome = "AssertionError"
        /\ REGISTERED_PC_DATASET_CLASSES = regPrev

\* C7 witness: a second registration of "alias", with another class.
C7_Witness ==
    /\ regCall.op = "register"
    /\ regCall.name = "alias"
    /\ "alias" \in DOMAIN regPrev
    /\ regPrev["alias"] # regCall.cls
    /\ regCall.outcome = "AssertionError"

(***************************************************************************)
(* Properties of SemKITTI2train (SpecTrain)                                *)
(***************************************************************************)

\* The per-array transform as the specification words it.
Shifted(x) == [k \in 1..Len(x) |-> IF x[k] = 0 THEN 255 ELSE x[k] - 1]

\* C8: the array SemKITTI2train_single returns has the length of its input,
\* 0 became 255 and k > 0 became k-1; applied once more to a non-empty
\* result it gives different values.
C8_SingleShiftsLabels ==
    call.arg.kind = "array" =>
        LET x == heapBefore[call.arg.refs[1]]
            r == heap[call.ret.refs[1]]
        IN  /\ call.outcome = "ok"
            /\ Len(r) = Len(x)
            /\ \A k \in 1..Len(x) : r[k] = IF x[k] = 0 THEN 255 ELSE x[k] - 1
            /\ Len(x) > 0 =>
                  SemKITTI2train_single(heap, call.ret.refs[1]).heap[call.ret.refs[1]] # r

\* C8 witness: the array [0, 2] was passed and [255, 1] came back.
C8_Witness ==
    /\ call.arg.kind = "array"
    /\ heapBefore[call.arg.refs[1]] = <<0, 2>>
    /\ heap[call.ret.refs[1]] = <<255, 1>>

\* C9: SemKITTI2train is pure: after a call every array the caller holds
\* has the values it had before the call.
C9_CallerArraysUntouched ==
    call.outcome = "ok" => \A a \in ArrIds : heap[a] = heapBefore[a]

\* C10: for any sequence of arrays (a list or not, with or without the same
\* object twice) SemKITTI2train returns a sequence of the same length whose
\* j-th array is the transform applied once to the j-th array passed.
C10_SequenceMappedOnce ==
    call.arg.kind \in {"list", "tuple"} =>
        /\ call.outcome = "ok"
        /\ Len(call.ret.refs) = Len(call.arg.refs)
        /\ \A j \in 1..Len(call.arg.refs) :
              heap[call.ret.refs[j]] = Shifted(heapBefore[call.arg.refs[j]])

(***************************************************************************)
(* Properties of the datasets (SpecData)                                   *)
(***************************************************************************)

SplitVariants == {"SemKITTI_sk", "Dense", "CycleDense"}
Labelled == {"SemKITTI_sk", "Dense", "SemKITTI_nusc"}

\* The constructor was given a split it does not recognize.
Unrecognized ==
    /\ ds.variant \in SplitVariants
    /\ \/ ds.imageset \notin {"train", "val", "test"}
       \/ ds.variant = "CycleDense" /\ ds.clss \notin {"clear", "rain", "fog"}

\* __getitem__ of the object reads and remaps the labels of the scan.
RemapsLabels ==
    \/ ds.variant \in {"SemKITTI_sk", "Dense"} /\ ds.imageset \in {"train", "val"}
    \/ ds.variant = "SemKITTI_nusc"

\* The k-th raw label of a scan as its label source stores it: the int32 of
\* the .label file (A), the value of labels_1 (B), the byte of the lidarseg
\* file (D).
RawLabel(scan, k) ==
    IF ds.variant = "SemKITTI_nusc" THEN scan[k][6] % 256 ELSE scan[k][6]

\* The id __getitem__ looks up for point k: the raw label masked to its low
\* 16 bits, read after the cast of the container to float32 for Dense.
LookedUp(scan, k) ==
    IF ds.variant = "Dense" THEN F32(scan[k][6]) % 65536
    ELSE RawLabel(scan, k) % 65536

\* C1 as claimed: an unrecognized split fails with the "must be
\* train/val/test" error and no file I/O has been made by then (taken in
\* the case that favours the claim: the label-mapping file is loadable).
C1_NoIOBeforeSplitError ==
    (Unrecognized /\ ds.yamlOk) =>
        /\ ds.outcome \in {SplitError, SplitClassError}
        /\ ioLog = <<>>

\* C1 amended: an unrecognized split fails before the data root is walked,
\* the only file I/O made being the load of the label-mapping file; the
\* failure is the "must be train/val/test" error when that load succeeds
\* and the load's own error when it does not.
C1_SplitErrorAfterYamlOnly ==
    Unrecognized =>
        /\ ioLog = <<OpenYaml>>
        /\ ds.im_idx = <<>>
        /\ ds.outcome = IF ~ds.yamlOk THEN "FileNotFoundError"
                        ELSE IF ds.variant = "CycleDense" THEN SplitClassError
                        ELSE SplitError

\* C1 witness: SemKITTI_sk built with imageset "bogus" and a loadable
\* label mapping raised the split error.
C1_Witness ==
    /\ ds.variant = "SemKITTI_sk"
    /\ ds.imageset = "bogus"
    /\ ds.yamlOk
    /\ ds.outcome = SplitError

\* C2: every successful access to a labelled variant returns coordinates
\* of shape (N,3) and labels of shape (N,1), N the number of points.
C2_ShapesAgree ==
    \A i \in Indices :
        (ds.variant \in Labelled /\ got[i].outcome = "ok") =>
            /\ got[i].tuple[1].shape = <<Len(storage[i]), 3>>
            /\ got[i].tuple[2].shape = <<Len(storage[i]), 1>>

\* C3: with return_ref the last element returned is an N x 1 column whose
\* k-th entry is the reflectance of point k (column 3 of the flat scan for
\* A and D, the intensity channel of the container for B and C).
C3_RefIsReflectanceColumn ==
    \A i \in Indices :
        (ds.return_ref /\ got[i].outcome = "ok") =>
            LET t == got[i].tuple
                ref == t[Len(t)]
                scan == storage[i]
            IN  /\ ref.shape = <<Len(scan), 1>>
                /\ ref.shape[1] = t[1].shape[1]
                /\ \A k \in 1..Len(scan) :
                      ref.flat[k] = IF ds.variant \in {"SemKITTI_sk", "SemKITTI_nusc"}
                                    THEN scan[k][4] ELSE scan[k][5]

C5_LabelIsMappedMaskedRaw ==
    \A i \in Indices :
        ( /\ RemapsLabels
          /\ got[i].outcome = "ok"
          /\ \A k \in 1..Len(storage[i]) :
                (RawLabel(storage[i], k) % 65536) \in DOMAIN ds.learning_map ) =>
            \A k \in 1..Len(storage[i]) :
                got[i].tuple[2].flat[k] =
                    ds.learning_map[RawLabel(storage[i], k) % 65536]

====
